---- MODULE Spec2Model ----
(***************************************************************************)
(* Manifest builders of the repository:                                    *)
(*   create_soundlist.py          main()  -> soundlist.json  ("simple")    *)
(*   scripts/create_audiomap.py   main()  -> audiomap.json   ("extended")  *)
(* A string is a sequence of one-character strings, so that endswith,      *)
(* replace, concatenation and comparison are computed, not assumed.        *)
(***************************************************************************)
EXTENDS Integers, Sequences, FiniteSets, TLC

VARIABLES
  variant,            \* which script runs: "soundlist" or "audiomap"
  soundDir,           \* the set of filenames in the sound directory
  backDir,            \* the set of filenames in the backing-tracks directory
  trackMeta,          \* backing filename -> duration MP3() reads, or None if it raises
  run,                \* number of the current invocation of main()
  pc,                 \* position of main()
  filenames,          \* local: listdir(sound_dir)
  backing_filenames,  \* local: listdir(backing_tracks_dir)
  i,                  \* position of the loop over filenames
  j,                  \* position of the loop over backing_filenames
  soundlist,          \* local
  backing_tracks,     \* local
  outfile,            \* content of the output file, None when it does not exist
  handle,             \* the file object open(output_filename, "w") returned
  console,            \* lines printed by this run, in order
  lookups,            \* history: every `icon_filename in filenames` test of this run
  writes,             \* history: json.dump calls of this run
  fileAtStart,        \* history: outfile when this run started
  firstWritten        \* history: the content the first completed json.dump wrote

vars == <<variant, soundDir, backDir, trackMeta, run, pc, filenames,
          backing_filenames, i, j, soundlist, backing_tracks, outfile, handle,
          console, lookups, writes, fileAtStart, firstWritten>>

env == <<variant, soundDir, backDir, trackMeta>>

-----------------------------------------------------------------------------
(* Bounds of the model *)

MaxSoundFiles == 3
MaxBackingFiles == 2
MaxRuns == 2

-----------------------------------------------------------------------------
(* Python values *)

None == [none |-> TRUE]
Some(v) == [none |-> FALSE, val |-> v]

Range(s) == {s[k] : k \in 1..Len(s)}

\* Every order in which listdir may return the names of a directory.
Listings(S) ==
  {s \in [1..Cardinality(S) -> S] : \A a, b \in 1..Cardinality(S) : s[a] = s[b] => a = b}

Lower == <<"a","b","c","d","e","f","g","h","i","j","k","l","m",
           "n","o","p","q","r","s","t","u","v","w","x","y","z">>

\* ord(c): the code point of a character.
Ord(c) ==
  CASE c = "." -> 46
    [] c = "/" -> 47
    [] c = "3" -> 51
    [] c = "_" -> 95
    [] OTHER -> 96 + (CHOOSE k \in 1..26 : Lower[k] = c)

\* a < b on str: lexicographic by code point, a proper prefix is smaller.
RECURSIVE StrLess(_, _)
StrLess(a, b) ==
  IF b = <<>> THEN FALSE
  ELSE IF a = <<>> THEN TRUE
  ELSE IF Head(a) = Head(b) THEN StrLess(Tail(a), Tail(b))
  ELSE Ord(Head(a)) < Ord(Head(b))

\* s.endswith(suffix)
EndsWith(s, suffix) ==
  /\ Len(s) >= Len(suffix)
  /\ SubSeq(s, Len(s) - Len(suffix) + 1, Len(s)) = suffix

\* s.replace(old, new): every non-overlapping occurrence, left to right.
RECURSIVE Replace(_, _, _)
Replace(s, old, new) ==
  IF Len(s) < Len(old) THEN s
  ELSE IF SubSeq(s, 1, Len(old)) = old
       THEN new \o Replace(SubSeq(s, Len(old) + 1, Len(s)), old, new)
       ELSE <<Head(s)>> \o Replace(Tail(s), old, new)

-----------------------------------------------------------------------------
(* String literals of the two scripts *)

WavExt == <<".","w","a","v">>
Mp3Ext == <<".","m","p","3">>
Png == <<"p","n","g">>
Svg == <<"s","v","g">>
IconSuffix(extension) == <<"_","_","i","c","o","n",".">> \o extension

SoundsPrefix == <<"s","o","u","n","d","s","/">>
AssetsSoundsPrefix == <<"a","s","s","e","t","s","/">> \o SoundsPrefix
AssetsBackingPrefix ==
  <<"a","s","s","e","t","s","/","b","a","c","k","i","n","g","_","t","r","a","c","k","s","/">>

\* for extension in ["png", "svg"]
Extensions == <<Png, Svg>>

\* filename.endswith(".wav")
AnyFileIsSound(filename) == TRUE
IsSound(filename) == EndsWith(filename, WavExt)

\* filename.endswith(".mp3")
IsBackingTrack(filename) == EndsWith(filename, Mp3Ext)

\* icon_filename = filename.replace(".wav", f"__icon.{extension}")
IconFilename(filename, extension) == Replace(filename, WavExt, IconSuffix(extension))

\* The inner loop: the first extension whose icon_filename is in filenames,
\* then break; None when the loop runs out.
RECURSIVE ResolveIcon(_, _, _)
ResolveIcon(filename, names, exts) ==
  IF exts = <<>> THEN None
  ELSE IF IconFilename(filename, Head(exts)) \in Range(names)
       THEN Some(IconFilename(filename, Head(exts)))
       ELSE ResolveIcon(filename, names, Tail(exts))

\* The membership tests the inner loop performs before it breaks or ends.
RECURSIVE IconLookups(_, _, _)
IconLookups(filename, names, exts) ==
  IF exts = <<>> THEN {}
  ELSE LET probe == [file |-> filename, extension |-> Head(exts),
                     candidate |-> IconFilename(filename, Head(exts))]
       IN IF probe.candidate \in Range(names)
          THEN {probe}
          ELSE {probe} \cup IconLookups(filename, names, Tail(exts))

\* create_soundlist.py: obj = {"audio": f"sounds/{filename}", "icon": ...}
SoundlistEntry(filename, names) ==
  LET icon == ResolveIcon(filename, names, Extensions)
  IN [audio |-> SoundsPrefix \o filename,
      icon |-> IF icon = None THEN None ELSE Some(SoundsPrefix \o icon.val)]

\* create_audiomap.py: obj = {"audio": f"sounds/{filename}", "icon": ...},
\* obj["icon"] = f"assets/sounds/{icon_filename}"
AudiomapEntry(filename, names) ==
  LET icon == ResolveIcon(filename, names, Extensions)
  IN [audio |-> SoundsPrefix \o filename,
      icon |-> IF icon = None THEN None ELSE Some(AssetsSoundsPrefix \o icon.val)]

\* The two append calls of the try statement.
TrackEntry(filename, duration) ==
  [audio |-> AssetsBackingPrefix \o filename, duration |-> duration]

\* except Exception as e: print(...); backing_tracks.append({..., "duration": None})
DropOnReadFailure(tracks, filename) == tracks
OnReadFailure(tracks, filename) == Append(tracks, TrackEntry(filename, None))

\* list.sort(key=lambda x: x["audio"]): stable, ascending by the key.
RECURSIVE InsertByAudio(_, _)
InsertByAudio(sorted, e) ==
  IF sorted = <<>> THEN <<e>>
  ELSE IF StrLess(e.audio, Head(sorted).audio)
       THEN <<e>> \o sorted
       ELSE <<Head(sorted)>> \o InsertByAudio(Tail(sorted), e)

RECURSIVE SortFrom(_, _)
SortFrom(sorted, rest) ==
  IF rest = <<>> THEN sorted
  ELSE SortFrom(InsertByAudio(sorted, Head(rest)), Tail(rest))

Unsorted(lst) == lst
SortByAudio(lst) == SortFrom(<<>>, lst)

-----------------------------------------------------------------------------
(* json.dump(..., indent=4), as the sequence of tokens it writes (white space
   and separators left out). A token is a string. *)

Quote(s) == <<"\"">> \o s \o <<"\"">>
Tok(s) == <<s>>
JsonNull == <<"n","u","l","l">>
AudioKey == Quote(<<"a","u","d","i","o">>)
IconKey == Quote(<<"i","c","o","n">>)
DurationKey == Quote(<<"d","u","r","a","t","i","o","n">>)
BackingTracksKey == Quote(<<"b","a","c","k","i","n","g","_","t","r","a","c","k","s">>)
SoundsKey == Quote(<<"s","o","u","n","d","s">>)

Digit(n) == <<"0","1","2","3","4","5","6","7","8","9">>[n + 1]

RECURSIVE Digits(_)
Digits(n) == IF n < 10 THEN <<Digit(n)>> ELSE Digits(n \div 10) \o <<Digit(n % 10)>>

\* float.__repr__ of a duration; the model counts durations in tenths of a second.
JsonFloat(d) == Digits(d \div 10) \o <<".">> \o <<Digit(d % 10)>>

JsonSound(e) ==
  <<Tok("{"), AudioKey, Quote(e.audio), IconKey,
    IF e.icon = None THEN JsonNull ELSE Quote(e.icon.val), Tok("}")>>

JsonTrack(e) ==
  <<Tok("{"), AudioKey, Quote(e.audio), DurationKey,
    IF e.duration = None THEN JsonNull ELSE JsonFloat(e.duration.val), Tok("}")>>

RECURSIVE JsonSounds(_)
JsonSounds(lst) == IF lst = <<>> THEN <<>> ELSE JsonSound(Head(lst)) \o JsonSounds(Tail(lst))

RECURSIVE JsonTracks(_)
JsonTracks(lst) == IF lst = <<>> THEN <<>> ELSE JsonTrack(Head(lst)) \o JsonTracks(Tail(lst))

\* create_soundlist.py: json.dump(soundlist, ...)
SoundlistJson(sounds) == <<Tok("[")>> \o JsonSounds(sounds) \o <<Tok("]")>>

\* create_audiomap.py: audiomap = {"backing_tracks": backing_tracks, "sounds": soundlist}
AudiomapJson(tracks, sounds) ==
  <<Tok("{"), BackingTracksKey, Tok("[")>> \o JsonTracks(tracks) \o <<Tok("]")>>
  \o <<SoundsKey, Tok("[")>> \o JsonSounds(sounds) \o <<Tok("]"), Tok("}")>>

\* What a json.dump that raises part-way has put in the file: a proper prefix
\* of the tokens (the model takes the first half).
PartialWrites(tokens) == {SubSeq(tokens, 1, Len(tokens) \div 2)}

\* print(f"Created {output_filename} with {len(soundlist)} sounds")
SoundlistSummary(sounds) == [kind |-> "summary", sounds |-> Len(sounds)]

\* print(f"Created ... with {len(backing_tracks)} backing tracks and {len(soundlist)} sounds")
SwappedAudiomapSummary(tracks, sounds) ==
  [kind |-> "summary", tracks |-> Len(sounds), sounds |-> Len(tracks)]
AudiomapSummary(tracks, sounds) ==
  [kind |-> "summary", tracks |-> Len(tracks), sounds |-> Len(sounds)]

\* print(f"Warning: Could not read duration for {filename}: {e}")
Warning(filename) == [kind |-> "warning", file |-> filename]

-----------------------------------------------------------------------------
(* The directories the model explores *)

Name(base, suffix) == base \o suffix

SoundPool ==
  { Name(<<"a">>, WavExt),
    Name(<<"b">>, WavExt),
    Name(<<"a">>, IconSuffix(Png)),
    Name(<<"a">>, IconSuffix(Svg)),
    Name(<<"a">> \o WavExt, WavExt),
    Name(<<"a">> \o WavExt, IconSuffix(Png)) }

BackingPool ==
  { Name(<<"x">>, Mp3Ext), Name(<<"y">>, Mp3Ext), Name(<<"x">>, WavExt) }

\* What MP3(filepath).info.length may give for a file: it raises (None), or the
\* file's length in tenths of a second (one length per file of the pool, so that
\* different files have different lengths).
TrackLength(filename) == IF Head(filename) = "x" THEN 125 ELSE 30

ReadOutcomes(filename) == {None, Some(TrackLength(filename))}

Init ==
  /\ variant \in {"soundlist", "audiomap"}
  /\ soundDir \in {S \in SUBSET SoundPool : Cardinality(S) <= MaxSoundFiles}
  /\ backDir \in IF variant = "audiomap"
                 THEN {S \in SUBSET BackingPool : Cardinality(S) <= MaxBackingFiles}
                 ELSE {{}}
  /\ trackMeta \in {m \in [{f \in backDir : IsBackingTrack(f)} ->
                             UNION {ReadOutcomes(f) : f \in BackingPool}] :
                      \A f \in DOMAIN m : m[f] \in ReadOutcomes(f)}
  /\ run = 1
  /\ pc = "start"
  /\ filenames = <<>>
  /\ backing_filenames = <<>>
  /\ i = 1
  /\ j = 1
  /\ soundlist = <<>>
  /\ backing_tracks = <<>>
  /\ outfile = None
  /\ handle = "none"
  /\ console = <<>>
  /\ lookups = {}
  /\ writes = 0
  /\ fileAtStart = None
  /\ firstWritten = None

-----------------------------------------------------------------------------
(* create_soundlist.py, main() *)

\* filenames = listdir(sound_dir); soundlist = []
SL_ListDir ==
  /\ variant = "soundlist" /\ pc = "start"
  /\ filenames' \in Listings(soundDir)
  /\ i' = 1
  /\ soundlist' = <<>>
  /\ pc' = "sounds"
  /\ UNCHANGED <<env, run, backing_filenames, j, backing_tracks, outfile, handle,
                 console, lookups, writes, fileAtStart, firstWritten>>

\* listdir raises (the directory is missing or unreadable); nothing catches it.
SL_ListDirRaises ==
  /\ variant = "soundlist" /\ pc = "start"
  /\ pc' = "raised_listdir"
  /\ UNCHANGED <<env, run, filenames, backing_filenames, i, j, soundlist,
                 backing_tracks, outfile, handle, console, lookups, writes,
                 fileAtStart, firstWritten>>

\* One iteration of `for filename in filenames`.
SL_ForFilename ==
  /\ variant = "soundlist" /\ pc = "sounds" /\ i <= Len(filenames)
  /\ LET filename == filenames[i]
     IN IF IsSound(filename)
        THEN /\ soundlist' = Append(soundlist, SoundlistEntry(filename, filenames))
             /\ lookups' = lookups \cup IconLookups(filename, filenames, Extensions)
        ELSE UNCHANGED <<soundlist, lookups>>
  /\ i' = i + 1
  /\ UNCHANGED <<env, run, pc, filenames, backing_filenames, j, backing_tracks,
                 outfile, handle, console, writes, fileAtStart, firstWritten>>

\* The loop is over; soundlist.sort(key=lambda x: x["audio"])
SL_Sort ==
  /\ variant = "soundlist" /\ pc = "sounds" /\ i > Len(filenames)
  /\ soundlist' = SortByAudio(soundlist)
  /\ pc' = "open"
  /\ UNCHANGED <<env, run, filenames, backing_filenames, i, j, backing_tracks,
                 outfile, handle, console, lookups, writes, fileAtStart, firstWritten>>

\* open(output_filename, "w"): the argument of json.dump is evaluated first and
\* truncates the file.
SL_Open ==
  /\ variant = "soundlist" /\ pc = "open"
  /\ outfile' = Some(<<>>)
  /\ handle' = "open"
  /\ pc' = "dump"
  /\ UNCHANGED <<env, run, filenames, backing_filenames, i, j, soundlist,
                 backing_tracks, console, lookups, writes, fileAtStart, firstWritten>>

\* open raises (the file cannot be created or written).
SL_OpenRaises ==
  /\ variant = "soundlist" /\ pc = "open"
  /\ pc' = "raised_open"
  /\ UNCHANGED <<env, run, filenames, backing_filenames, i, j, soundlist,
                 backing_tracks, outfile, handle, console, lookups, writes,
                 fileAtStart, firstWritten>>

\* json.dump(soundlist, <file>, indent=4) returns. The script never closes the
\* file object: it is closed when the interpreter finalizes it, at once under
\* reference counting, at some later collection otherwise.
SL_Dump ==
  /\ variant = "soundlist" /\ pc = "dump"
  /\ outfile' = Some(SoundlistJson(soundlist))
  /\ firstWritten' = IF firstWritten = None THEN outfile' ELSE firstWritten
  /\ writes' = writes + 1
  /\ handle' \in {"closed", "open"}
  /\ pc' = "print"
  /\ UNCHANGED <<env, run, filenames, backing_filenames, i, j, soundlist,
                 backing_tracks, console, lookups, fileAtStart>>

\* json.dump raises while writing: the exception propagates; its traceback keeps
\* the file object alive, so nothing has closed it when main() is left.
SL_DumpRaises ==
  /\ variant = "soundlist" /\ pc = "dump"
  /\ \E part \in PartialWrites(SoundlistJson(soundlist)) : outfile' = Some(part)
  /\ writes' = writes + 1
  /\ pc' = "raised_dump"
  /\ UNCHANGED <<env, run, filenames, backing_filenames, i, j, soundlist,
                 backing_tracks, handle, console, lookups, fileAtStart, firstWritten>>

\* print(f"Created ...") and main() returns.
SL_Print ==
  /\ variant = "soundlist" /\ pc = "print"
  /\ console' = Append(console, SoundlistSummary(soundlist))
  /\ pc' = "done"
  /\ UNCHANGED <<env, run, filenames, backing_filenames, i, j, soundlist,
                 backing_tracks, outfile, handle, lookups, writes, fileAtStart,
                 firstWritten>>

-----------------------------------------------------------------------------
(* scripts/create_audiomap.py, main() *)

\* filenames = listdir(sound_dir)
AM_ListSounds ==
  /\ variant = "audiomap" /\ pc = "start"
  /\ filenames' \in Listings(soundDir)
  /\ pc' = "list_backing"
  /\ UNCHANGED <<env, run, backing_filenames, i, j, soundlist, backing_tracks,
                 outfile, handle, console, lookups, writes, fileAtStart, firstWritten>>

\* listdir(sound_dir) raises; nothing catches it.
AM_ListSoundsRaises ==
  /\ variant = "audiomap" /\ pc = "start"
  /\ pc' = "raised_listdir"
  /\ UNCHANGED <<env, run, filenames, backing_filenames, i, j, soundlist,
                 backing_tracks, outfile, handle, console, lookups, writes,
                 fileAtStart, firstWritten>>

\* backing_filenames = listdir(backing_tracks_dir); soundlist = []; backing_tracks = []
AM_ListBacking ==
  /\ variant = "audiomap" /\ pc = "list_backing"
  /\ backing_filenames' \in Listings(backDir)
  /\ i' = 1
  /\ soundlist' = <<>>
  /\ backing_tracks' = <<>>
  /\ pc' = "sounds"
  /\ UNCHANGED <<env, run, filenames, j, outfile, handle, console, lookups, writes,
                 fileAtStart, firstWritten>>

\* listdir(backing_tracks_dir) raises; nothing catches it.
AM_ListBackingRaisesAfterOpen ==
  /\ variant = "audiomap" /\ pc = "list_backing"
  /\ outfile' = Some(<<>>)
  /\ handle' = "open"
  /\ pc' = "raised_listdir"
  /\ UNCHANGED <<env, run, filenames, backing_filenames, i, j, soundlist,
                 backing_tracks, console, lookups, writes, fileAtStart, firstWritten>>
AM_ListBackingRaises ==
  /\ variant = "audiomap" /\ pc = "list_backing"
  /\ pc' = "raised_listdir"
  /\ UNCHANGED <<env, run, filenames, backing_filenames, i, j, soundlist,
                 backing_tracks, outfile, handle, console, lookups, writes,
                 fileAtStart, firstWritten>>

\* One iteration of `for filename in filenames`.
AM_ForFilename ==
  /\ variant = "audiomap" /\ pc = "sounds" /\ i <= Len(filenames)
  /\ LET filename == filenames[i]
     IN IF IsSound(filename)
        THEN /\ soundlist' = Append(soundlist, AudiomapEntry(filename, filenames))
             /\ lookups' = lookups \cup IconLookups(filename, filenames, Extensions)
        ELSE UNCHANGED <<soundlist, lookups>>
  /\ i' = i + 1
  /\ UNCHANGED <<env, run, pc, filenames, backing_filenames, j, backing_tracks,
                 outfile, handle, console, writes, fileAtStart, firstWritten>>

\* The loop is over; soundlist.sort(key=lambda x: x["audio"])
AM_SortSounds ==
  /\ variant = "audiomap" /\ pc = "sounds" /\ i > Len(filenames)
  /\ soundlist' = SortByAudio(soundlist)
  /\ j' = 1
  /\ pc' = "backing"
  /\ UNCHANGED <<env, run, filenames, backing_filenames, i, backing_tracks,
                 outfile, handle, console, lookups, writes, fileAtStart, firstWritten>>

\* One iteration of `for filename in backing_filenames`: MP3(filepath) opens,
\* reads and closes the file itself; a failure is caught and reported.
AM_ForBacking ==
  /\ variant = "audiomap" /\ pc = "backing" /\ j <= Len(backing_filenames)
  /\ LET filename == backing_filenames[j]
     IN IF ~IsBackingTrack(filename)
        THEN UNCHANGED <<backing_tracks, console>>
        ELSE IF trackMeta[filename] = None
        THEN /\ console' = Append(console, Warning(filename))
             /\ backing_tracks' = OnReadFailure(backing_tracks, filename)
        ELSE /\ backing_tracks' =
                  Append(backing_tracks, TrackEntry(filename, trackMeta[filename]))
             /\ UNCHANGED console
  /\ j' = j + 1
  /\ UNCHANGED <<env, run, pc, filenames, backing_filenames, i, soundlist,
                 outfile, handle, lookups, writes, fileAtStart, firstWritten>>

\* The loop is over; backing_tracks.sort(key=lambda x: x["audio"])
AM_SortBacking ==
  /\ variant = "audiomap" /\ pc = "backing" /\ j > Len(backing_filenames)
  /\ backing_tracks' = SortByAudio(backing_tracks)
  /\ pc' = "open"
  /\ UNCHANGED <<env, run, filenames, backing_filenames, i, j, soundlist,
                 outfile, handle, console, lookups, writes, fileAtStart, firstWritten>>

\* open(output_filename, "w") truncates the file.
AM_Open ==
  /\ variant = "audiomap" /\ pc = "open"
  /\ outfile' = Some(<<>>)
  /\ handle' = "open"
  /\ pc' = "dump"
  /\ UNCHANGED <<env, run, filenames, backing_filenames, i, j, soundlist,
                 backing_tracks, console, lookups, writes, fileAtStart, firstWritten>>

\* open raises.
AM_OpenRaises ==
  /\ variant = "audiomap" /\ pc = "open"
  /\ pc' = "raised_open"
  /\ UNCHANGED <<env, run, filenames, backing_filenames, i, j, soundlist,
                 backing_tracks, outfile, handle, console, lookups, writes,
                 fileAtStart, firstWritten>>

\* json.dump(audiomap, <file>, indent=4) returns; the file object is left to
\* the interpreter's finalization, as in create_soundlist.py.
AM_Dump ==
  /\ variant = "audiomap" /\ pc = "dump"
  /\ outfile' = Some(AudiomapJson(backing_tracks, soundlist))
  /\ firstWritten' = IF firstWritten = None THEN outfile' ELSE firstWritten
  /\ writes' = writes + 1
  /\ handle' \in {"closed", "open"}
  /\ pc' = "print"
  /\ UNCHANGED <<env, run, filenames, backing_filenames, i, j, soundlist,
                 backing_tracks, console, lookups, fileAtStart>>

\* json.dump raises while writing; the file object is still open when main()
\* is left.
AM_DumpRaises ==
  /\ variant = "audiomap" /\ pc = "dump"
  /\ \E part \in PartialWrites(AudiomapJson(backing_tracks, soundlist)) :
       outfile' = Some(part)
  /\ writes' = writes + 1
  /\ pc' = "raised_dump"
  /\ UNCHANGED <<env, run, filenames, backing_filenames, i, j, soundlist,
                 backing_tracks, handle, console, lookups, fileAtStart, firstWritten>>

\* print(f"Created ...") and main() returns.
AM_Print ==
  /\ variant = "audiomap" /\ pc = "print"
  /\ console' = Append(console, AudiomapSummary(backing_tracks, soundlist))
  /\ pc' = "done"
  /\ UNCHANGED <<env, run, filenames, backing_filenames, i, j, soundlist,
                 backing_tracks, outfile, handle, lookups, writes, fileAtStart,
                 firstWritten>>

-----------------------------------------------------------------------------
\* After a completed run the script is invoked again on the unchanged
\* directories: a new process, with fresh locals and no file object; the
\* output file is what the last run left.
Rerun ==
  /\ pc = "done"
  /\ run < MaxRuns
  /\ run' = run + 1
  /\ pc' = "start"
  /\ filenames' = <<>>
  /\ backing_filenames' = <<>>
  /\ i' = 1
  /\ j' = 1
  /\ soundlist' = <<>>
  /\ backing_tracks' = <<>>
  /\ handle' = "none"
  /\ console' = <<>>
  /\ lookups' = {}
  /\ writes' = 0
  /\ fileAtStart' = outfile
  /\ UNCHANGED <<env, outfile, firstWritten>>

Next ==
  \/ SL_ListDir \/ SL_ListDirRaises \/ SL_ForFilename \/ SL_Sort
  \/ SL_Open \/ SL_OpenRaises \/ SL_Dump \/ SL_DumpRaises \/ SL_Print
  \/ AM_ListSounds \/ AM_ListSoundsRaises \/ AM_ListBacking \/ AM_ListBackingRaises
  \/ AM_ForFilename \/ AM_SortSounds \/ AM_ForBacking \/ AM_SortBacking
  \/ AM_Open \/ AM_OpenRaises \/ AM_Dump \/ AM_DumpRaises \/ AM_Print
  \/ Rerun

Spec == Init /\ [][Next]_vars

-----------------------------------------------------------------------------
(* Vocabulary of the properties *)

Sep == <<"/">>

IsPrefixOf(p, s) == Len(p) <= Len(s) /\ SubSeq(s, 1, Len(p)) = p

\* a <= b in the lexicographic order of code points.
LexLeq(a, b) ==
  \/ IsPrefixOf(a, b)
  \/ \E k \in 1..Len(a) :
       /\ k <= Len(b)
       /\ SubSeq(a, 1, k - 1) = SubSeq(b, 1, k - 1)
       /\ Ord(a[k]) < Ord(b[k])

AscendingByAudio(lst) ==
  \A a, b \in 1..Len(lst) : a < b => LexLeq(lst[a].audio, lst[b].audio)

WavFiles == {f \in soundDir : EndsWith(f, WavExt)}
Mp3Files == {f \in backDir : EndsWith(f, Mp3Ext)}

\* The positions of the entries of lst made for the file f.
EntriesFor(lst, f) == {k \in 1..Len(lst) : EndsWith(lst[k].audio, Sep \o f)}

\* b of f = b + ".wav", and the sibling icon file of f.
Stem(f) == SubSeq(f, 1, Len(f) - Len(WavExt))
Sibling(f, extension) == Stem(f) \o IconSuffix(extension)

\* The directory part of a path: everything up to its last "/".
RECURSIVE DirOf(_)
DirOf(path) ==
  IF path = <<>> \/ path[Len(path)] = "/" THEN path
  ELSE DirOf(SubSeq(path, 1, Len(path) - 1))

CountTok(tokens, t) == Cardinality({k \in 1..Len(tokens) : tokens[k] = t})

Manifest ==
  IF variant = "soundlist" THEN SoundlistJson(soundlist)
  ELSE AudiomapJson(backing_tracks, soundlist)

SoundsBuilt == pc \in {"backing", "open", "dump", "print", "done", "raised_open", "raised_dump"}
TracksBuilt ==
  variant = "audiomap" /\ pc \in {"open", "dump", "print", "done", "raised_open", "raised_dump"}
Written == pc \in {"print", "done"}

-----------------------------------------------------------------------------
\* C1: once the loop over the sound directory is over, in both scripts, every
\* filename ending in ".wav" has exactly one entry, every other filename has
\* none, the number of entries is the number of .wav filenames, and the audio
\* values are pairwise distinct.
C1_OneEntryPerWav ==
  SoundsBuilt =>
    /\ \A f \in soundDir :
         Cardinality(EntriesFor(soundlist, f)) = IF f \in WavFiles THEN 1 ELSE 0
    /\ Len(soundlist) = Cardinality(WavFiles)
    /\ \A a, b \in 1..Len(soundlist) :
         soundlist[a].audio = soundlist[b].audio => a = b

C1_Witness ==
  /\ pc = "done"
  /\ Len(soundlist) = 2
  /\ Sibling(Name(<<"a">>, WavExt), Png) \in soundDir

\* C2: in the manifest that was written, sounds (and backing_tracks in
\* audiomap) ascend lexicographically by audio, whatever order listdir gave.
C2_WrittenSorted ==
  Written =>
    /\ outfile = Some(Manifest)
    /\ AscendingByAudio(soundlist)
    /\ AscendingByAudio(backing_tracks)

C2_Witness ==
  /\ pc = "done"
  /\ variant = "audiomap"
  /\ Len(soundlist) >= 2
  /\ Len(backing_tracks) = 2
  /\ \E a \in 1..Len(filenames) - 1 : ~LexLeq(filenames[a], filenames[a + 1])
  /\ ~LexLeq(backing_filenames[1], backing_filenames[2])

\* C3: the icon of the entry of a sound file is the path of its png sibling
\* whenever that sibling is in the directory, of its svg sibling when only
\* that one is, and null exactly when neither is.
C3_PngThenSvgSibling ==
  SoundsBuilt =>
    \A f \in WavFiles : \A k \in EntriesFor(soundlist, f) :
      LET icon == soundlist[k].icon
      IN /\ Sibling(f, Png) \in soundDir =>
              icon # None /\ EndsWith(icon.val, Sep \o Sibling(f, Png))
         /\ Sibling(f, Png) \notin soundDir /\ Sibling(f, Svg) \in soundDir =>
              icon # None /\ EndsWith(icon.val, Sep \o Sibling(f, Svg))
         /\ icon = None <=>
              Sibling(f, Png) \notin soundDir /\ Sibling(f, Svg) \notin soundDir

\* What does hold of the order of the tests: among the names the scripts
\* look up, a png hit wins over an svg hit, and null means no hit.
PngThenSvgAmongLookups ==
  SoundsBuilt =>
    \A f \in WavFiles : \A k \in EntriesFor(soundlist, f) :
      LET icon == soundlist[k].icon
          png == IconFilename(f, Png)
          svg == IconFilename(f, Svg)
      IN /\ png \in soundDir => icon # None /\ EndsWith(icon.val, Sep \o png)
         /\ png \notin soundDir /\ svg \in soundDir =>
              icon # None /\ EndsWith(icon.val, Sep \o svg)
         /\ icon = None <=> png \notin soundDir /\ svg \notin soundDir

\* C4: in audiomap, at every point of the loop over the backing-tracks
\* directory and after it, each .mp3 filename handled so far has exactly one
\* entry, with the duration read or null if the read failed, and one warning
\* exactly if the read failed; the loop is never left by an exception.
TracksHandled ==
  IF pc = "backing" THEN Range(SubSeq(backing_filenames, 1, j - 1)) ELSE backDir

C4_EntryForEveryMp3 ==
  /\ [](variant = "audiomap" /\ (pc = "backing" \/ TracksBuilt) =>
          /\ \A f \in TracksHandled \cap Mp3Files :
               /\ Cardinality(EntriesFor(backing_tracks, f)) = 1
               /\ \A k \in EntriesFor(backing_tracks, f) :
                    backing_tracks[k].duration = trackMeta[f]
               /\ CountTok(console, Warning(f)) = IF trackMeta[f] = None THEN 1 ELSE 0
          /\ Len(backing_tracks) = Cardinality(TracksHandled \cap Mp3Files))
  /\ [][pc = "backing" => pc' \in {"backing", "open"}]_vars

C4_Witness ==
  /\ pc = "done"
  /\ Len(backing_tracks) = 2
  /\ backing_tracks[1].duration = None
  /\ backing_tracks[2].duration # None
  /\ Len(console) = 2

\* C5: every icon name looked up for f = b + ".wav" is b + "__icon.png" or
\* b + "__icon.svg".
C5_OnlyTrailingExtensionReplaced ==
  \A l \in lookups : l.candidate = Sibling(l.file, l.extension)

\* C6: in both scripts, the icon path of an entry has the asset root of its
\* audio path.
C6_SameAssetRoot ==
  \A k \in 1..Len(soundlist) :
    soundlist[k].icon # None => DirOf(soundlist[k].icon.val) = DirOf(soundlist[k].audio)

\* C7: every run that writes the manifest writes the content the first one
\* wrote, whatever order listdir gave, and a later run leaves the file as it
\* found it.
C7_SameManifestEveryRun ==
  Written =>
    /\ outfile = firstWritten
    /\ run > 1 => outfile = fileAtStart

C7_Witness ==
  /\ pc = "done"
  /\ run = 2
  /\ variant = "audiomap"
  /\ Len(soundlist) >= 2
  /\ Len(backing_tracks) = 2
  /\ \E a \in 1..Len(filenames) - 1 : LexLeq(filenames[a + 1], filenames[a])

\* C8: when a listdir raises, the output file is as the run found it, no file
\* object exists, nothing was written and nothing was printed.
C8_ListingFailureLeavesOutput ==
  pc = "raised_listdir" =>
    /\ outfile = fileAtStart
    /\ handle = "none"
    /\ writes = 0
    /\ console = <<>>

C8_Witness ==
  /\ pc = "raised_listdir"
  /\ variant = "audiomap"
  /\ filenames # <<>>
  /\ run = 2
  /\ outfile # None /\ outfile.val # <<>>

\* C9: no file object is open when main() returns or raises.
C9_NoHandleLeftOpen ==
  pc \in {"done", "raised_listdir", "raised_open", "raised_dump"} => handle # "open"

\* C10: a completed run printed one summary, as its last line, after its one
\* json.dump; the counts of the summary are the numbers of sound and of
\* backing-track entries in the file; the other lines are warnings, printed
\* before the json.dump, one for each entry whose duration is null.
C10_SummaryAfterWrite ==
  /\ [](pc = "done" =>
          /\ writes = 1
          /\ console # <<>>
          /\ \A k \in 1..Len(console) :
               console[k].kind = IF k = Len(console) THEN "summary" ELSE "warning"
          /\ console[Len(console)].sounds = CountTok(outfile.val, IconKey)
          /\ variant = "audiomap" =>
               console[Len(console)].tracks = CountTok(outfile.val, DurationKey)
          /\ Len(console) - 1 =
               Cardinality({k \in 1..Len(backing_tracks) : backing_tracks[k].duration = None})
          /\ \A k \in 1..Len(backing_tracks) :
               backing_tracks[k].duration = None =>
                 \E f \in backDir :
                   /\ k \in EntriesFor(backing_tracks, f)
                   /\ CountTok(console, Warning(f)) = 1)
  /\ [][Len(console') > Len(console) =>
          IF console'[Len(console')].kind = "summary"
          THEN writes = 1 /\ writes' = 1
          ELSE writes = 0 /\ writes' = 0]_vars

C10_Witness ==
  /\ pc = "done"
  /\ Len(console) = 2
  /\ Len(soundlist) = 2
  /\ Len(backing_tracks) = 2

====
